---- MODULE Spec2Model ----
(***************************************************************************)
(* Maze generation of dsdmaze: the orchestrator MazeGenerator              *)
(* (src/src/maze_generator.rs), the depth-first carver GeneratorDFS        *)
(* (src/src/maze_generator/generator_dfs.rs) and the recursive divider     *)
(* GeneratorRD (src/src/maze_generator/generator_rd.rs).                   *)
(*                                                                         *)
(* A grid is a function from 0 .. size*size-1 to BOOLEAN, TRUE = wall, as  *)
(* the Vec<bool> of the code.  The recursion of add_path and of            *)
(* divide_chamber is kept as an explicit stack of call frames.             *)
(*                                                                         *)
(* Random draws.  Every draw from the seeded engine goes through GenRange. *)
(* With stream = "any" the seed is left open and a draw may return any     *)
(* value of its range (this covers every seed and every engine).  With     *)
(* stream = "lcg" the engine is a concrete congruential generator advanced *)
(* by every draw, so that two runs from the same seed see the same values. *)
(* rand::random() draws from the thread-local generator instead, which no  *)
(* seed determines: it is a free choice in both cases.                     *)
(***************************************************************************)
EXTENDS Integers, Sequences, FiniteSets, TLC

VARIABLES
    generator,        \* MazeGenerator.generator: "DFS" or "RD"
    size,             \* the size passed to MazeGenerator::new
    seed,             \* the seed passed to MazeGenerator::new
    maze_size,        \* MazeGenerator.maze_size
    start_position,   \* MazeGenerator.start_position, <<x, y>>
    end_position,     \* MazeGenerator.end_position, <<x, y>>
    end_border,       \* MazeGenerator.end_border
    maze_array,       \* MazeGenerator.maze_array
    random_engine,    \* MazeGenerator.random_engine (state of the seeded engine)
    stream,           \* "any": draws left open; "lcg": draws computed from random_engine
    pc,               \* position inside generate_maze
    work_array,       \* the local maze_array of GeneratorDFS/GeneratorRD::generate
    stack,            \* pending calls of add_path / divide_chamber, innermost last
    run,              \* 1 for the first run, 2 for an independent second run
    first,            \* the result of the first run, kept for comparison
    sample,           \* the locals of the placement loops: <<x, y>> last drawn by
                      \* set_start_position, <<exit_index>> last drawn by set_exit
    walls,            \* history: the walls divide_chamber has drawn so far
    program_config,   \* main: ProgramConfig (maze_size, selected_generator)
    arguments         \* main: the command line arguments not yet parsed

vars == <<generator, size, seed, maze_size, start_position, end_position,
          end_border, maze_array, random_engine, stream, pc, work_array,
          stack, run, first, sample, walls, program_config, arguments>>

\* the variables of main
appvars == <<program_config, arguments>>

----------------------------------------------------------------------------
(* Bounds of the model, and the sizes it covers *)

\* largest size passed to new()
MaxSize == 7

\* seeds 0 .. MaxSeed are tried when the engine is concrete
MaxSeed == 5

\* GeneratorDFS::generate: the seed coordinates are drawn from
\* SeedMargin ..= maze_size - SeedMargin
SeedMargin == 3

\* smallest size for which the range SeedMargin ..= size - SeedMargin is not empty
MinSize == 2 * SeedMargin

Sizes == MinSize .. MaxSize

Generators == {"DFS", "RD"}

\* enum Direction, in declaration order
Directions == <<"Top", "Bottom", "Left", "Right">>

DirSet == {"Top", "Bottom", "Left", "Right"}

\* enum Orientation, in declaration order
Orientations == <<"Horizontal", "Vertical">>

\* Vec::new()
EmptyArray == [i \in {} |-> TRUE]

----------------------------------------------------------------------------
(* The seeded random source *)

\* one step of the engine: an 8-bit congruential generator of full period
LcgNext(e) == (e * 5 + 3) % 256

\* the output of a state: its high bits
LcgOut(e) == e \div 4

\* Seeder::from(seed).make_rng()
SeedEngine(s) == (s * 37 + 11) % 256

\* rng.gen_range(lo..=hi) on engine state e: the possible (value, next state)
GenRange(e, lo, hi) ==
    IF stream = "any"
    THEN {[v |-> k, e |-> e] : k \in lo .. hi}
    ELSE LET e1 == LcgNext(e)
         IN  {[v |-> lo + (LcgOut(e1) % (hi - lo + 1)), e |-> e1]}

\* impl Distribution<Direction> for Standard: engine.gen::<Direction>()
StandardDirection(e) ==
    {[v |-> Directions[r.v + 1], e |-> r.e] : r \in GenRange(e, 0, 3)}

\* a slip of GeneratorRD: the orientation is drawn with rand::random()
StandardOrientationThreadLocal(e) ==
    {[v |-> Orientations[k], e |-> e] : k \in DOMAIN Orientations}

\* impl Distribution<Orientation> for Standard: engine.gen::<Orientation>()
StandardOrientation(e) ==
    {[v |-> Orientations[r.v + 1], e |-> r.e] : r \in GenRange(e, 0, 1)}

\* rand::random::<Direction>(): the thread-local generator, independent of the seed
ThreadRandomDirection == DirSet

----------------------------------------------------------------------------
(* Grid helpers *)

Cells(n) == 0 .. (n * n - 1)

Row(i, n) == i \div n

Col(i, n) == i % n

OnRing(i, n) == Row(i, n) = 0 \/ Row(i, n) = n - 1 \/ Col(i, n) = 0 \/ Col(i, n) = n - 1

\* the 4-neighbours of cell i inside the grid
Adjacent(i, n) ==
    {j \in {i - n, i + n} : j \in Cells(n)}
        \cup (IF Col(i, n) > 0 THEN {i - 1} ELSE {})
        \cup (IF Col(i, n) < n - 1 THEN {i + 1} ELSE {})

OpenCells(arr, n) == {i \in Cells(n) : ~arr[i]}

----------------------------------------------------------------------------
(* MazeGenerator::new *)

\* main: the ProgramConfig main starts from
DefaultConfig == [maze_size |-> 20, selected_generator |-> "RD"]

NoResult ==
    [maze_array |-> EmptyArray, maze_size |-> 0, start_position |-> <<0, 0>>,
     end_position |-> <<0, 0>>, end_border |-> "Top"]

\* a slip of new: the size is made odd for RD at once
NewAdjustsSize(g, n, s, st) ==
    /\ generator = g
    /\ size = n
    /\ seed = s
    /\ stream = st
    /\ maze_size = (IF g = "RD" /\ n % 2 = 0 THEN n + 1 ELSE n)
    /\ start_position = <<0, 0>>
    /\ end_position = <<0, 0>>
    /\ end_border = "Top"
    /\ maze_array = EmptyArray
    /\ random_engine = IF st = "any" THEN 0 ELSE SeedEngine(s)
    /\ pc = "new"
    /\ work_array = EmptyArray
    /\ stack = <<>>
    /\ sample = <<>>
    /\ walls = {}

\* MazeGenerator::new(generator, maze_size, seed)
New(g, n, s, st) ==
    /\ generator = g
    /\ size = n
    /\ seed = s
    /\ stream = st
    /\ maze_size = n
    /\ start_position = <<0, 0>>
    /\ end_position = <<0, 0>>
    /\ end_border = "Top"
    /\ maze_array = EmptyArray
    /\ random_engine = IF st = "any" THEN 0 ELSE SeedEngine(s)
    /\ pc = "new"
    /\ work_array = EmptyArray
    /\ stack = <<>>
    /\ sample = <<>>
    /\ walls = {}

Init ==
    /\ \E g \in Generators, n \in Sizes : New(g, n, 0, "any")
    /\ run = 1
    /\ first = NoResult
    /\ program_config = DefaultConfig
    /\ arguments = <<>>

----------------------------------------------------------------------------
(* GeneratorDFS *)

\* the cell one step from (x, y): the match of generate / add_path
Neighbour(x, y, d) ==
    CASE d = "Top"    -> [x |-> x, y |-> y - 1]
      [] d = "Bottom" -> [x |-> x, y |-> y + 1]
      [] d = "Left"   -> [x |-> x - 1, y |-> y]
      [] d = "Right"  -> [x |-> x + 1, y |-> y]

\* count of add_path: the visited cells among the four around (x, y)
VisitedNeighbours(arr, n, x, y) ==
    Cardinality({i \in {(x - 1) * n + y, (x + 1) * n + y, x * n + (y - 1), x * n + (y + 1)} :
                    ~arr[i]})

\* a slip of add_path: the bounds check keeps one cell too many from the border
AddPathNarrowBounds(arr, n, x, y) ==
    \/ x >= n - 2 \/ x < 2 \/ y < 2 \/ y >= n - 2
    \/ ~arr[x * n + y]
    \/ Cardinality({i \in {(x - 1) * n + y, (x + 1) * n + y,
                           x * n + (y - 1), x * n + (y + 1)} : ~arr[i]}) > 1

\* a slip of add_path: a cell with two visited cells around it is still carved
AddPathAllowsTwo(arr, n, x, y) ==
    \/ x >= n - 1 \/ x < 1 \/ y < 1 \/ y >= n - 1
    \/ ~arr[x * n + y]
    \/ Cardinality({i \in {(x - 1) * n + y, (x + 1) * n + y,
                           x * n + (y - 1), x * n + (y + 1)} : ~arr[i]}) > 2

\* a slip of add_path: the classical backtracker, which only skips visited cells
AddPathSkipsVisitedOnly(arr, n, x, y) ==
    \/ x >= n - 1 \/ x < 1 \/ y < 1 \/ y >= n - 1
    \/ ~arr[x * n + y]

\* the three early returns of add_path(x, y)
AddPathReturnsEarly(arr, n, x, y) ==
    \/ x >= n - 1 \/ x < 1 \/ y < 1 \/ y >= n - 1
    \/ ~arr[x * n + y]
    \/ VisitedNeighbours(arr, n, x, y) > 1

\* a slip of add_path: the cell is not marked
CarveNothing(arr, n, x, y) == arr

\* add_path: "Mark actual point as visited"
Carve(arr, n, x, y) == [arr EXCEPT ![x * n + y] = FALSE]

\* the k-th (from 0) of the directions dirs, in the order of the enum
NthDirection(dirs, k) == SelectSeq(Directions, LAMBDA d : d \in dirs)[k + 1]

\* directions.shuffle(engine) followed by the for loop: the shuffled order is
\* resolved as the loop runs, each iteration taking any direction not yet taken
ShuffledNext(e, dirs) ==
    {[v |-> NthDirection(dirs, r.v), e |-> r.e] :
        r \in GenRange(e, 0, Cardinality(dirs) - 1)}

\* Suspended frames drop the directions whose call would return early: such a
\* call changes nothing whenever the loop gets to it (RejectedStaysRejected)
Suspend(arr, n, frames) ==
    [k \in DOMAIN frames |->
        [frames[k] EXCEPT !.dirs =
            {d \in @ : LET c == Neighbour(frames[k].x, frames[k].y, d)
                       IN  ~AddPathReturnsEarly(arr, n, c.x, c.y)}]]

\* GeneratorDFS::generate up to its call of add_path
GenerateDFS ==
    /\ pc = "new"
    /\ generator = "DFS"
    /\ \E rx \in GenRange(random_engine, SeedMargin, maze_size - SeedMargin) :
       \E ry \in GenRange(rx.e, SeedMargin, maze_size - SeedMargin) :
       \E rd \in StandardDirection(ry.e) :
          /\ work_array' = [i \in Cells(maze_size) |-> i # rx.v * maze_size + ry.v]
          /\ stack' = <<[x |-> rx.v, y |-> ry.v, dirs |-> {rd.v}]>>
          /\ random_engine' = rd.e
    /\ pc' = "dfs"
    /\ UNCHANGED <<generator, size, seed, maze_size, start_position, end_position,
                   end_border, maze_array, stream, run, first, sample, walls, appvars>>

\* one call add_path(x, y) made by the innermost frame, up to its for loop
AddPath ==
    /\ pc = "dfs"
    /\ stack # <<>>
    /\ LET top == stack[Len(stack)]
       IN  /\ top.dirs # {}
           /\ \E r \in ShuffledNext(random_engine, top.dirs) :
                 LET c    == Neighbour(top.x, top.y, r.v)
                     rest == [stack EXCEPT ![Len(stack)].dirs = @ \ {r.v}]
                     arr  == Carve(work_array, maze_size, c.x, c.y)
                 IN  /\ random_engine' = r.e
                     /\ IF AddPathReturnsEarly(work_array, maze_size, c.x, c.y)
                        THEN /\ work_array' = work_array
                             /\ stack' = rest
                        ELSE /\ work_array' = arr
                             /\ stack' = Append(Suspend(arr, maze_size, rest),
                                                [x |-> c.x, y |-> c.y, dirs |-> DirSet])
    /\ UNCHANGED <<generator, size, seed, maze_size, start_position, end_position,
                   end_border, maze_array, stream, pc, run, first, sample, walls, appvars>>

\* the for loop of the innermost add_path is over: the call returns
AddPathReturn ==
    /\ pc = "dfs"
    /\ stack # <<>>
    /\ stack[Len(stack)].dirs = {}
    /\ stack' = SubSeq(stack, 1, Len(stack) - 1)
    /\ UNCHANGED <<generator, size, seed, maze_size, start_position, end_position,
                   end_border, maze_array, random_engine, stream, pc, work_array,
                   run, first, sample, walls, appvars>>

----------------------------------------------------------------------------
(* GeneratorRD *)

\* a slip of get_orientation: the two arms are exchanged
GetOrientationSwapped(e, start_field_x, start_field_y, end_field_x, end_field_y) ==
    LET chamber_width  == end_field_x - start_field_x
        chamber_height == end_field_y - start_field_y
    IN  IF chamber_width > chamber_height THEN {[v |-> "Horizontal", e |-> e]}
        ELSE IF chamber_width < chamber_height THEN {[v |-> "Vertical", e |-> e]}
        ELSE StandardOrientation(e)

\* GeneratorRD::get_orientation: the possible (orientation, next engine state)
GetOrientation(e, start_field_x, start_field_y, end_field_x, end_field_y) ==
    LET chamber_width  == end_field_x - start_field_x
        chamber_height == end_field_y - start_field_y
    IN  IF chamber_width > chamber_height THEN {[v |-> "Vertical", e |-> e]}
        ELSE IF chamber_width < chamber_height THEN {[v |-> "Horizontal", e |-> e]}
        ELSE StandardOrientation(e)

\* a slip of "Make border": the right column is left open
BorderedArrayOpenSide(n) ==
    [i \in Cells(n) |->
        \E k \in 0 .. (n - 1) : i \in {k * n, k, (n - 1) * n + k}]

\* "Make border": the grid all open but for the outer ring
BorderedArray(n) ==
    [i \in Cells(n) |->
        \E k \in 0 .. (n - 1) :
            i \in {k * n, k, k * n + (n - 1), (n - 1) * n + k}]

\* a pending call of divide_chamber
Chamber(sx, sy, ex, ey, o) ==
    [start_field_x |-> sx, start_field_y |-> sy,
     end_field_x |-> ex, end_field_y |-> ey, orientation |-> o]

\* a slip of divide_chamber: the passage is put at the array index of the field
\* itself, not at the odd index of its cell
HorizontalWallEvenPassage(arr, n, c, wall_field, passage_field) ==
    LET wall_index == wall_field * 2 + 1 + 1
    IN  [i \in DOMAIN arr |->
            IF Row(i, n) = wall_index /\ Col(i, n) = passage_field * 2
            THEN FALSE
            ELSE IF /\ Row(i, n) = wall_index
                    /\ Col(i, n) \in (c.start_field_x * 2 + 1) .. (c.end_field_x * 2 + 2)
            THEN TRUE
            ELSE arr[i]]

\* a slip of divide_chamber: the horizontal wall starts one cell late
HorizontalWallShort(arr, n, c, wall_field, passage_field) ==
    LET wall_index == wall_field * 2 + 1 + 1
    IN  [i \in DOMAIN arr |->
            IF /\ Row(i, n) = wall_index
               /\ Col(i, n) \in (c.start_field_x * 2 + 2) .. (c.end_field_x * 2 + 2)
            THEN Col(i, n) # passage_field * 2 + 1
            ELSE arr[i]]

\* the horizontal wall of divide_chamber: row wall_index drawn over the
\* chamber's columns, the passage opened at passage_field
HorizontalWall(arr, n, c, wall_field, passage_field) ==
    LET wall_index == wall_field * 2 + 1 + 1
    IN  [i \in DOMAIN arr |->
            IF /\ Row(i, n) = wall_index
               /\ Col(i, n) \in (c.start_field_x * 2 + 1) .. (c.end_field_x * 2 + 2)
            THEN Col(i, n) # passage_field * 2 + 1
            ELSE arr[i]]

\* a slip of divide_chamber: the passage of a vertical wall is put one row
\* further down
VerticalWallPassageBelow(arr, n, c, wall_field, passage_field) ==
    LET wall_index == wall_field * 2 + 1 + 1
    IN  [i \in DOMAIN arr |->
            IF /\ Col(i, n) = wall_index
               /\ Row(i, n) \in (c.start_field_y * 2 + 1) .. (c.end_field_y * 2 + 2)
            THEN Row(i, n) # passage_field * 2 + 2
            ELSE arr[i]]

\* the vertical wall of divide_chamber
VerticalWall(arr, n, c, wall_field, passage_field) ==
    LET wall_index == wall_field * 2 + 1 + 1
    IN  [i \in DOMAIN arr |->
            IF /\ Col(i, n) = wall_index
               /\ Row(i, n) \in (c.start_field_y * 2 + 1) .. (c.end_field_y * 2 + 2)
            THEN Row(i, n) # passage_field * 2 + 1
            ELSE arr[i]]

\* a slip of divide_chamber: the wall field is drawn from start ..= end
LastWallFieldInclusive(start_field, end_field) == end_field

\* gen_range(start_field..end_field) of divide_chamber: the last field a wall
\* can be drawn behind
LastWallField(start_field, end_field) == end_field - 1

\* a slip of divide_chamber: the spans are compared with 0, which no unsigned
\* difference is below
ChamberNeverTooSmall(c) ==
    \/ (c.end_field_x - c.start_field_x) < 0
    \/ (c.end_field_y - c.start_field_y) < 0

\* a slip of divide_chamber: a chamber two fields wide or high is left alone
ChamberTooSmallAtOne(c) ==
    \/ (c.end_field_x - c.start_field_x) <= 1
    \/ (c.end_field_y - c.start_field_y) <= 1

\* the base case of divide_chamber: "Chamber is too small"
ChamberTooSmall(c) ==
    \/ (c.end_field_x - c.start_field_x) < 1
    \/ (c.end_field_y - c.start_field_y) < 1

\* a slip of generate_maze: the size is incremented whatever its parity
OddSizeAlways(n) == n + 1

\* a slip of generate_maze: the size is handed on as it is
OddSizeForgotten(n) == n

\* generate_maze, the RD arm: "RD generator needs odd size"
OddSize(n) == IF n % 2 = 0 THEN n + 1 ELSE n

\* generate_maze's size adjustment, then GeneratorRD::generate up to its call
\* of divide_chamber
GenerateRD ==
    /\ pc = "new"
    /\ generator = "RD"
    /\ maze_size' = OddSize(maze_size)
    /\ LET maze_fields == (maze_size' - 1) \div 2
       IN  \E o \in StandardOrientation(random_engine) :
              /\ stack' = <<Chamber(0, 0, maze_fields - 1, maze_fields - 1, o.v)>>
              /\ random_engine' = o.e
    /\ work_array' = BorderedArray(maze_size')
    /\ walls' = {}
    /\ pc' = "rd"
    /\ UNCHANGED <<generator, size, seed, start_position, end_position,
                   end_border, maze_array, stream, run, first, sample, appvars>>

\* one call of divide_chamber, up to its two recursive calls
DivideChamber ==
    /\ pc = "rd"
    /\ stack # <<>>
    /\ LET c    == stack[Len(stack)]
           rest == SubSeq(stack, 1, Len(stack) - 1)
       IN  IF ChamberTooSmall(c)
           THEN /\ stack' = rest
                /\ UNCHANGED <<work_array, random_engine, walls>>
           ELSE IF c.orientation = "Horizontal"
           THEN \E w \in GenRange(random_engine, c.start_field_y,
                                   LastWallField(c.start_field_y, c.end_field_y)) :
                \E p \in GenRange(w.e, c.start_field_x, c.end_field_x) :
                \E o1 \in GetOrientation(p.e, c.start_field_x, c.start_field_y,
                                         c.end_field_x, w.v) :
                \E o2 \in GetOrientation(o1.e, c.start_field_x, w.v + 1,
                                         c.end_field_x, c.end_field_y) :
                   /\ work_array' = HorizontalWall(work_array, maze_size, c, w.v, p.v)
                   /\ walls' = walls \cup {[wall_index |-> w.v * 2 + 1 + 1, chamber |-> c]}
                   /\ random_engine' = o2.e
                   /\ stack' = rest \o
                        <<Chamber(c.start_field_x, w.v + 1, c.end_field_x,
                                  c.end_field_y, o2.v),
                          Chamber(c.start_field_x, c.start_field_y, c.end_field_x,
                                  w.v, o1.v)>>
           ELSE \E w \in GenRange(random_engine, c.start_field_x,
                                   LastWallField(c.start_field_x, c.end_field_x)) :
                \E p \in GenRange(w.e, c.start_field_y, c.end_field_y) :
                \E o1 \in GetOrientation(p.e, c.start_field_x, c.start_field_y,
                                         w.v, c.end_field_y) :
                \E o2 \in GetOrientation(o1.e, w.v + 1, c.start_field_y,
                                         c.end_field_x, c.end_field_y) :
                   /\ work_array' = VerticalWall(work_array, maze_size, c, w.v, p.v)
                   /\ walls' = walls \cup {[wall_index |-> w.v * 2 + 1 + 1, chamber |-> c]}
                   /\ random_engine' = o2.e
                   /\ stack' = rest \o
                        <<Chamber(w.v + 1, c.start_field_y, c.end_field_x,
                                  c.end_field_y, o2.v),
                          Chamber(c.start_field_x, c.start_field_y, w.v,
                                  c.end_field_y, o1.v)>>
    /\ UNCHANGED <<generator, size, seed, maze_size, start_position, end_position,
                   end_border, maze_array, stream, pc, run, first, sample, appvars>>

----------------------------------------------------------------------------
(* MazeGenerator *)

\* a slip of generate_maze: set_exit is called before set_start_position
ThenExitFirst(p) ==
    CASE p \in {"dfs", "rd"} -> "exit"
      [] p = "exit"          -> "start"
      [] p = "start"         -> "done"

\* the order of generate_maze: the generator, set_start_position, set_exit
Then(p) ==
    CASE p \in {"dfs", "rd"} -> "start"
      [] p = "start"         -> "exit"
      [] p = "exit"          -> "done"

\* a slip of generate: a fresh array is returned, not the one worked on
GeneratorReturnsFresh ==
    /\ pc \in {"dfs", "rd"}
    /\ stack = <<>>
    /\ maze_array' = [i \in DOMAIN work_array |-> TRUE]
    /\ work_array' = EmptyArray
    /\ pc' = Then(pc)
    /\ UNCHANGED <<generator, size, seed, maze_size, start_position, end_position,
                   end_border, random_engine, stream, stack, run, first, sample, walls, appvars>>

\* self.maze_array = generator.generate(): the outermost call has returned
GeneratorReturn ==
    /\ pc \in {"dfs", "rd"}
    /\ stack = <<>>
    /\ maze_array' = work_array
    /\ work_array' = EmptyArray
    /\ pc' = Then(pc)
    /\ UNCHANGED <<generator, size, seed, maze_size, start_position, end_position,
                   end_border, random_engine, stream, stack, run, first, sample, walls, appvars>>

\* one sample of set_start_position: the start is set when the cell is open,
\* another sample is drawn when it is a wall
SetStartPosition ==
    /\ pc = "start"
    /\ \E x \in GenRange(random_engine, 1, maze_size - 1) :
       \E y \in GenRange(x.e, 1, maze_size - 1) :
          /\ random_engine' = y.e
          /\ sample' = <<x.v, y.v>>
          /\ IF maze_array[y.v * maze_size + x.v]
             THEN UNCHANGED <<start_position, pc>>
             ELSE /\ start_position' = <<x.v, y.v>>
                  /\ pc' = Then("start")
    /\ UNCHANGED <<generator, size, seed, maze_size, end_position, end_border,
                   maze_array, stream, work_array, stack, run, first, walls, appvars>>

\* a slip of set_exit: the Top arm looks at the second row
ExitInnerSecondRow(n, exit_index, exit_wall) ==
    CASE exit_wall = "Top"    -> 2 * n + exit_index
      [] exit_wall = "Bottom" -> (n - 2) * n + exit_index
      [] exit_wall = "Left"   -> exit_index * n + 1
      [] exit_wall = "Right"  -> exit_index * n + (n - 2)

\* the cell set_exit looks at for (exit_index, exit_wall): one step inward
ExitInner(n, exit_index, exit_wall) ==
    CASE exit_wall = "Top"    -> 1 * n + exit_index
      [] exit_wall = "Bottom" -> (n - 2) * n + exit_index
      [] exit_wall = "Left"   -> exit_index * n + 1
      [] exit_wall = "Right"  -> exit_index * n + (n - 2)

\* a slip of set_exit: the Bottom arm opens the inner row again
ExitHoleInnerRow(n, exit_index, exit_wall) ==
    CASE exit_wall = "Top"    -> 0 * n + exit_index
      [] exit_wall = "Bottom" -> (n - 2) * n + exit_index
      [] exit_wall = "Left"   -> exit_index * n + 0
      [] exit_wall = "Right"  -> exit_index * n + (n - 1)

\* the cell set_exit opens for (exit_index, exit_wall): on the border
ExitHole(n, exit_index, exit_wall) ==
    CASE exit_wall = "Top"    -> 0 * n + exit_index
      [] exit_wall = "Bottom" -> (n - 1) * n + exit_index
      [] exit_wall = "Left"   -> exit_index * n + 0
      [] exit_wall = "Right"  -> exit_index * n + (n - 1)

\* a slip of set_exit: the Left and Right arms record (y, x)
ExitPointSwapped(n, exit_index, exit_wall) ==
    CASE exit_wall = "Top"    -> <<exit_index, 1>>
      [] exit_wall = "Bottom" -> <<exit_index, n - 2>>
      [] exit_wall = "Left"   -> <<exit_index, 1>>
      [] exit_wall = "Right"  -> <<exit_index, n - 2>>

\* the point set_exit records for (exit_index, exit_wall)
ExitPoint(n, exit_index, exit_wall) ==
    CASE exit_wall = "Top"    -> <<exit_index, 1>>
      [] exit_wall = "Bottom" -> <<exit_index, n - 2>>
      [] exit_wall = "Left"   -> <<1, exit_index>>
      [] exit_wall = "Right"  -> <<n - 2, exit_index>>

\* a slip of set_exit: the cell of the start is not taken as the exit point
SetExitAvoidsStart ==
    /\ pc = "exit"
    /\ \E i \in GenRange(random_engine, 1, maze_size - 1) :
       \E exit_wall \in ThreadRandomDirection :
          /\ random_engine' = i.e
          /\ sample' = <<i.v>>
          /\ IF /\ maze_array[ExitInner(maze_size, i.v, exit_wall)] = FALSE
                /\ ExitPoint(maze_size, i.v, exit_wall) # start_position
             THEN /\ end_position' = ExitPoint(maze_size, i.v, exit_wall)
                  /\ end_border' = exit_wall
                  /\ maze_array' = [maze_array EXCEPT
                                       ![ExitHole(maze_size, i.v, exit_wall)] = FALSE]
                  /\ pc' = Then("exit")
             ELSE UNCHANGED <<end_position, end_border, maze_array, pc>>
    /\ UNCHANGED <<generator, size, seed, maze_size, start_position, stream,
                   work_array, stack, run, first, walls, appvars>>

\* a slip of set_exit: the border is opened before the inner cell is looked at
SetExitOpensFirst ==
    /\ pc = "exit"
    /\ \E i \in GenRange(random_engine, 1, maze_size - 1) :
       \E exit_wall \in ThreadRandomDirection :
          /\ random_engine' = i.e
          /\ sample' = <<i.v>>
          /\ maze_array' = [maze_array EXCEPT
                               ![ExitHole(maze_size, i.v, exit_wall)] = FALSE]
          /\ IF maze_array[ExitInner(maze_size, i.v, exit_wall)] = FALSE
             THEN /\ end_position' = ExitPoint(maze_size, i.v, exit_wall)
                  /\ end_border' = exit_wall
                  /\ pc' = Then("exit")
             ELSE UNCHANGED <<end_position, end_border, pc>>
    /\ UNCHANGED <<generator, size, seed, maze_size, start_position, stream,
                   work_array, stack, run, first, walls, appvars>>

\* one iteration of the loop of set_exit
SetExit ==
    /\ pc = "exit"
    /\ \E i \in GenRange(random_engine, 1, maze_size - 1) :
       \E exit_wall \in ThreadRandomDirection :
          /\ random_engine' = i.e
          /\ sample' = <<i.v>>
          /\ IF maze_array[ExitInner(maze_size, i.v, exit_wall)] = FALSE
             THEN /\ end_position' = ExitPoint(maze_size, i.v, exit_wall)
                  /\ end_border' = exit_wall
                  /\ maze_array' = [maze_array EXCEPT
                                       ![ExitHole(maze_size, i.v, exit_wall)] = FALSE]
                  /\ pc' = Then("exit")
             ELSE UNCHANGED <<end_position, end_border, maze_array, pc>>
    /\ UNCHANGED <<generator, size, seed, maze_size, start_position, stream,
                   work_array, stack, run, first, walls, appvars>>

\* generate_maze, step by step
GenerateMaze ==
    \/ GenerateDFS
    \/ AddPath
    \/ AddPathReturn
    \/ GenerateRD
    \/ DivideChamber
    \/ GeneratorReturn
    \/ SetStartPosition
    \/ SetExit

Next == GenerateMaze

Spec == Init /\ [][Next]_vars

\* generate_maze runs on until it returns, and sampling is fair: a sample that
\* stays possible is drawn in the end
SpecFair ==
    /\ Init
    /\ [][Next]_vars
    /\ WF_vars(Next)
    /\ WF_vars(SetStartPosition /\ pc' = "exit")
    /\ WF_vars(SetExit /\ pc' = "done")

----------------------------------------------------------------------------
(* Two independent runs from the same (kind, size, seed) *)

\* what the accessors return
Result ==
    [maze_array |-> maze_array, maze_size |-> maze_size,
     start_position |-> start_position, end_position |-> end_position,
     end_border |-> end_border]

InitDet ==
    /\ \E g \in Generators, n \in Sizes, s \in 0 .. MaxSeed : New(g, n, s, "lcg")
    /\ run = 1
    /\ first = NoResult
    /\ program_config = DefaultConfig
    /\ arguments = <<>>

\* the first run is over and its result kept; a second generator is built by
\* MazeGenerator::new from the same kind, size and seed
SecondRun ==
    /\ pc = "done"
    /\ run = 1
    /\ first' = Result
    /\ run' = 2
    /\ maze_size' = size
    /\ start_position' = <<0, 0>>
    /\ end_position' = <<0, 0>>
    /\ end_border' = "Top"
    /\ maze_array' = EmptyArray
    /\ random_engine' = SeedEngine(seed)
    /\ pc' = "new"
    /\ sample' = <<>>
    /\ UNCHANGED <<generator, size, seed, stream, work_array, stack, walls, appvars>>

NextDet == GenerateMaze \/ SecondRun

SpecDet == InitDet /\ [][NextDet]_vars

----------------------------------------------------------------------------
(* Panics: an index outside the array, an unsigned subtraction below zero, *)
(* a draw from an empty range.  Each predicate tells whether the step that *)
(* comes next can run into one of them, for some value it may draw.        *)

\* GeneratorDFS::generate: maze_size - 3, gen_range(3..=(maze_size - 3)) and
\* maze_array[x * maze_size + y]
PanicsInGenerateDFS ==
    \/ maze_size < SeedMargin
    \/ SeedMargin > maze_size - SeedMargin
    \/ \E x, y \in SeedMargin .. (maze_size - SeedMargin) :
          x * maze_size + y \notin Cells(maze_size)

\* the call add_path makes in direction d from frame f: y - 1 and x - 1 of the
\* argument, maze_size - 1, maze_array[x * maze_size + y] and the four reads
\* around it
PanicsInAddPath(f, d) ==
    \/ d = "Top" /\ f.y < 1
    \/ d = "Left" /\ f.x < 1
    \/ maze_size < 1
    \/ LET c == Neighbour(f.x, f.y, d)
       IN  /\ ~(c.x >= maze_size - 1 \/ c.x < 1 \/ c.y < 1 \/ c.y >= maze_size - 1)
           /\ \/ c.x * maze_size + c.y \notin DOMAIN work_array
              \/ /\ work_array[c.x * maze_size + c.y]
                 /\ \E i \in {(c.x - 1) * maze_size + c.y, (c.x + 1) * maze_size + c.y,
                               c.x * maze_size + (c.y - 1), c.x * maze_size + (c.y + 1)} :
                       i \notin DOMAIN work_array

\* GeneratorRD::generate: the border loop, (maze_size - 1) / 2 and
\* maze_fields - 1
PanicsInGenerateRD ==
    LET n == OddSize(maze_size)
    IN  \/ n < 1
        \/ (n - 1) \div 2 < 1
        \/ \E i \in 0 .. (n - 1) :
              {i * n, i, i * n + (n - 1), (n - 1) * n + i} \ Cells(n) # {}

\* divide_chamber on chamber c: the spans of the base case, the two draws, the
\* wall and passage writes, and the spans get_orientation computes
PanicsInDivideChamber(c) ==
    LET horizontal == c.orientation = "Horizontal"
        lo   == IF horizontal THEN c.start_field_y ELSE c.start_field_x
        hi   == IF horizontal THEN c.end_field_y ELSE c.end_field_x
        from == IF horizontal THEN c.start_field_x ELSE c.start_field_y
        to   == IF horizontal THEN c.end_field_x ELSE c.end_field_y
    IN  \/ c.end_field_x < c.start_field_x
        \/ c.end_field_y < c.start_field_y
        \/ /\ ~ChamberTooSmall(c)
           /\ \/ lo > LastWallField(lo, hi)
              \/ from > to
              \/ \E w \in lo .. LastWallField(lo, hi) :
                    \/ w < lo
                    \/ hi < w + 1
                    \/ \E m \in (from * 2 + 1) .. (to * 2 + 2) :
                          (IF horizontal THEN (w * 2 + 1 + 1) * maze_size + m
                                         ELSE m * maze_size + (w * 2 + 1 + 1))
                             \notin DOMAIN work_array

\* set_start_position: maze_size - 1, gen_range(1..=(maze_size - 1)) and
\* maze_array[y * maze_size + x]
PanicsInSetStartPosition ==
    \/ maze_size < 1
    \/ 1 > maze_size - 1
    \/ \E x, y \in 1 .. (maze_size - 1) :
          y * maze_size + x \notin DOMAIN maze_array

\* set_exit: maze_size - 1, maze_size - 2, gen_range(1..=(maze_size - 1)), the
\* read of the inner cell and the write of the border cell
PanicsInSetExit ==
    \/ maze_size < 2
    \/ \E exit_index \in 1 .. (maze_size - 1), exit_wall \in DirSet :
          \/ ExitInner(maze_size, exit_index, exit_wall) \notin DOMAIN maze_array
          \/ /\ maze_array[ExitInner(maze_size, exit_index, exit_wall)] = FALSE
             /\ ExitHole(maze_size, exit_index, exit_wall) \notin DOMAIN maze_array

\* the step generate_maze takes next can panic
Panics ==
    CASE pc = "new"   -> IF generator = "DFS" THEN PanicsInGenerateDFS
                                              ELSE PanicsInGenerateRD
      [] pc = "dfs"   -> \E k \in DOMAIN stack : \E d \in stack[k].dirs :
                            PanicsInAddPath(stack[k], d)
      [] pc = "rd"    -> \E k \in DOMAIN stack : PanicsInDivideChamber(stack[k])
      [] pc = "start" -> PanicsInSetStartPosition
      [] pc = "exit"  -> PanicsInSetExit
      [] OTHER        -> FALSE

----------------------------------------------------------------------------
(* The public interface used on after generate_maze has returned *)

\* a slip of get_maze_array: the array is moved out of the generator
AccessorsTakeArray ==
    /\ pc \in {"new", "done"}
    /\ maze_array' = EmptyArray
    /\ UNCHANGED <<generator, size, seed, maze_size, start_position, end_position,
                   end_border, random_engine, stream, pc, work_array, stack, run,
                   first, sample, walls, appvars>>

\* get_maze_array, get_maze_size, get_start_position, get_exit and
\* get_end_border: they take &self and return a reference or a copy
Accessors ==
    /\ pc \in {"new", "done"}
    /\ UNCHANGED vars

\* generate_maze is called again on the same MazeGenerator: the fields and the
\* engine are as the first call left them; the result of the first call is
\* kept in first for comparison
GenerateAgain ==
    /\ pc = "done"
    /\ run = 1
    /\ first' = Result
    /\ run' = 2
    /\ sample' = <<>>
    /\ pc' = "new"
    /\ UNCHANGED <<generator, size, seed, maze_size, start_position, end_position,
                   end_border, maze_array, random_engine, stream, work_array, stack, walls, appvars>>

NextAgain == GenerateMaze \/ Accessors \/ GenerateAgain

SpecAgain == InitDet /\ [][NextAgain]_vars

----------------------------------------------------------------------------
(* main: from the config file and the command line to MazeGenerator::new.  *)
(* A text is a sequence of characters.                                     *)

\* at most MaxArguments command line arguments are given
MaxArguments == 2

Digits == <<"0", "1", "2", "3", "4", "5", "6", "7", "8", "9">>

IsDigit(ch) == \E d \in DOMAIN Digits : Digits[d] = ch

DigitValue(ch) == (CHOOSE d \in DOMAIN Digits : Digits[d] = ch) - 1

RECURSIVE Decimal(_)
\* the value of a sequence of digits
Decimal(text) ==
    IF text = <<>> THEN 0
    ELSE 10 * Decimal(SubSeq(text, 1, Len(text) - 1)) + DigitValue(text[Len(text)])

\* str::parse::<usize>: Ok(value) for a non-empty sequence of digits, Err
\* otherwise
ParseUsize(text) ==
    IF text # <<>> /\ \A k \in DOMAIN text : IsDigit(text[k])
    THEN [ok |-> TRUE, value |-> Decimal(text)]
    ELSE [ok |-> FALSE, value |-> 0]

\* the size texts tried: around both ends of the accepted sizes, and texts
\* that are no unsigned number
SizeTexts ==
    {<<"0">>, <<"9">>, <<"1", "0">>, <<"2", "0">>,
     <<"1", "0", "0", "0", "0", "0">>, <<"1", "0", "0", "0", "0", "1">>,
     <<"-", "5">>, <<"x">>}

GeneratorTexts == {<<"D", "F", "S">>, <<"R", "D">>, <<"x">>}

\* the command line arguments tried: a name and the text behind it
Arguments ==
    {[name |-> "-size=", text |-> t] : t \in SizeTexts \cup {<<>>}}
        \cup {[name |-> "-generator=", text |-> t] : t \in GeneratorTexts}
        \cup {[name |-> "-portable", text |-> <<>>]}

\* match slice { "DFS" => DFS, _ => RD }
SelectGenerator(text) == IF text = <<"D", "F", "S">> THEN "DFS" ELSE "RD"

\* a slip of main: only the lower end of the sizes is looked at
MazeSizeRestrictionsLowOnly(n) == IF n < 10 THEN 20 ELSE n

\* main: "Maze size restrictions"
MazeSizeRestrictions(n) == IF n < 10 \/ n > 100000 THEN 20 ELSE n

\* main is entered with some command line; no MazeGenerator exists yet
InitApp ==
    /\ program_config = DefaultConfig
    /\ \E k \in 0 .. MaxArguments : arguments \in [1 .. k -> Arguments]
    /\ pc = "main"
    /\ generator = "RD"
    /\ size = 0
    /\ seed = 0
    /\ stream = "any"
    /\ maze_size = 0
    /\ start_position = <<0, 0>>
    /\ end_position = <<0, 0>>
    /\ end_border = "Top"
    /\ maze_array = EmptyArray
    /\ random_engine = 0
    /\ work_array = EmptyArray
    /\ stack = <<>>
    /\ sample = <<>>
    /\ walls = {}
    /\ run = 1
    /\ first = NoResult

\* main, the config file: skipped with -portable; written with the defaults
\* when it does not exist; read otherwise, Size and Generator with it (an
\* unparsable Size makes unwrap panic)
LoadConfig ==
    /\ pc = "main"
    /\ \/ /\ \E k \in DOMAIN arguments : arguments[k].name = "-portable"
          /\ UNCHANGED program_config
          /\ pc' = "args"
       \/ /\ \A k \in DOMAIN arguments : arguments[k].name # "-portable"
          /\ \/ /\ UNCHANGED program_config
                /\ pc' = "args"
             \/ \E size_text \in SizeTexts, generator_text \in GeneratorTexts :
                   IF ParseUsize(size_text).ok
                   THEN /\ program_config' =
                              [maze_size |-> ParseUsize(size_text).value,
                               selected_generator |-> SelectGenerator(generator_text)]
                        /\ pc' = "args"
                   ELSE /\ UNCHANGED program_config
                        /\ pc' = "panicked"
    /\ UNCHANGED <<generator, size, seed, maze_size, start_position, end_position,
                   end_border, maze_array, random_engine, stream, work_array, stack,
                   run, first, sample, walls, arguments>>

\* parse_commandline_arguments: one turn of its loop
ParseCommandlineArguments ==
    /\ pc = "args"
    /\ arguments # <<>>
    /\ LET argument == Head(arguments)
       IN  program_config' =
              IF argument.name = "-size=" /\ Len(argument.text) > 0
              THEN [program_config EXCEPT !.maze_size =
                       IF ParseUsize(argument.text).ok
                       THEN ParseUsize(argument.text).value
                       ELSE 600]
              ELSE IF argument.name = "-generator=" /\ Len(argument.text) > 0
              THEN [program_config EXCEPT !.selected_generator =
                       SelectGenerator(argument.text)]
              ELSE program_config
    /\ arguments' = Tail(arguments)
    /\ UNCHANGED <<generator, size, seed, maze_size, start_position, end_position,
                   end_border, maze_array, random_engine, stream, pc, work_array,
                   stack, run, first, sample, walls>>

\* main, after the command line is parsed: the size restrictions
RestrictMazeSize ==
    /\ pc = "args"
    /\ arguments = <<>>
    /\ program_config' = [program_config EXCEPT !.maze_size = MazeSizeRestrictions(@)]
    /\ pc' = "restricted"
    /\ UNCHANGED <<generator, size, seed, maze_size, start_position, end_position,
                   end_border, maze_array, random_engine, stream, work_array, stack,
                   run, first, sample, walls, arguments>>

\* main: MazeGenerator::new(selected_generator, maze_size, seed)
MainNew ==
    /\ pc = "restricted"
    /\ generator' = program_config.selected_generator
    /\ size' = program_config.maze_size
    /\ maze_size' = program_config.maze_size
    /\ pc' = "new"
    /\ UNCHANGED <<seed, start_position, end_position, end_border, maze_array,
                   random_engine, stream, work_array, stack, run, first, sample,
                   walls, appvars>>

NextApp == LoadConfig \/ ParseCommandlineArguments \/ RestrictMazeSize \/ MainNew

SpecApp == InitApp /\ [][NextApp]_vars

----------------------------------------------------------------------------
(* Graph of open cells *)

RECURSIVE Flood(_, _, _)
\* the open cells reachable from the set S of open cells by steps between
\* 4-adjacent open cells
Flood(arr, n, S) ==
    LET more == S \cup {j \in UNION {Adjacent(i, n) : i \in S} : ~arr[j]}
    IN  IF more = S THEN S ELSE Flood(arr, n, more)

\* flood fill from cell i: empty when i itself is a wall
Reach(arr, n, i) == IF arr[i] THEN {} ELSE Flood(arr, n, {i})

\* the pairs of 4-adjacent open cells, each counted once
OpenEdges(arr, n) ==
    {e \in (OpenCells(arr, n) \X OpenCells(arr, n)) :
        \/ e[2] = e[1] + n
        \/ e[2] = e[1] + 1 /\ Row(e[1], n) = Row(e[2], n)}

Connected(arr, n) ==
    \/ OpenCells(arr, n) = {}
    \/ Reach(arr, n, CHOOSE i \in OpenCells(arr, n) : TRUE) = OpenCells(arr, n)

\* some 2x2 block of the grid is all open
HasOpenBlock(arr, n) ==
    \E i \in Cells(n) :
        /\ Col(i, n) < n - 1
        /\ Row(i, n) < n - 1
        /\ ~arr[i] /\ ~arr[i + 1] /\ ~arr[i + n] /\ ~arr[i + n + 1]

\* index of the point <<x, y>> in a grid of edge n
PointIndex(p, n) == p[2] * n + p[1]

OpenRing(arr, n) == {i \in Cells(n) : OnRing(i, n) /\ ~arr[i]}

Corner(i, n) == i \in {0, n - 1, (n - 1) * n, n * n - 1}

OnBorder(i, n, border) ==
    CASE border = "Top"    -> Row(i, n) = 0
      [] border = "Bottom" -> Row(i, n) = n - 1
      [] border = "Left"   -> Col(i, n) = 0
      [] border = "Right"  -> Col(i, n) = n - 1

\* the open cells one step inward of the outer ring
InwardOpen(arr, n) ==
    {i \in OpenCells(arr, n) :
        /\ ~OnRing(i, n)
        /\ (Row(i, n) \in {1, n - 2} \/ Col(i, n) \in {1, n - 2})}

\* the grid the DFS carver is working on or has returned
DfsGrid == IF pc = "dfs" THEN work_array ELSE maze_array

\* What Suspend rests on: a call of add_path that would return early now
\* would return early after any further step of the carver
RejectedStaysRejected ==
    [][(pc = "dfs" /\ pc' = "dfs") =>
          \A x \in 0 .. (maze_size - 1), y \in 0 .. (maze_size - 1) :
              AddPathReturnsEarly(work_array, maze_size, x, y)
                  => AddPathReturnsEarly(work_array', maze_size, x, y)]_vars

\* chamber c has the orientation its spans ask for, and a place for the wall
OrientationFits(c) ==
    LET chamber_width  == c.end_field_x - c.start_field_x
        chamber_height == c.end_field_y - c.start_field_y
    IN  /\ chamber_width > chamber_height => c.orientation = "Vertical"
        /\ chamber_width < chamber_height => c.orientation = "Horizontal"
        /\ c.orientation = "Horizontal" => chamber_height >= 1
        /\ c.orientation = "Vertical" => chamber_width >= 1

\* the grid RD works on, then the grid it has returned
RdGrid == IF pc = "rd" THEN work_array ELSE maze_array

\* the cells of wall w inside the chamber it divides
WallCells(w, n) ==
    LET c == w.chamber
    IN  IF c.orientation = "Horizontal"
        THEN {w.wall_index * n + m : m \in (c.start_field_x * 2 + 1) .. (c.end_field_x * 2 + 1)}
        ELSE {m * n + w.wall_index : m \in (c.start_field_y * 2 + 1) .. (c.end_field_y * 2 + 1)}

\* the two cells in which wall w meets what encloses the chamber
WallEnds(w, n) ==
    LET c == w.chamber
    IN  IF c.orientation = "Horizontal"
        THEN {w.wall_index * n + c.start_field_x * 2, w.wall_index * n + c.end_field_x * 2 + 2}
        ELSE {c.start_field_y * 2 * n + w.wall_index, (c.end_field_y * 2 + 2) * n + w.wall_index}

\* the number of fields of chamber c
Fields(c) ==
    (c.end_field_x - c.start_field_x + 1) * (c.end_field_y - c.start_field_y + 1)

\* chamber a is not empty and lies inside chamber c
SubChamber(a, c) ==
    /\ c.start_field_x <= a.start_field_x /\ a.start_field_x <= a.end_field_x
    /\ a.end_field_x <= c.end_field_x
    /\ c.start_field_y <= a.start_field_y /\ a.start_field_y <= a.end_field_y
    /\ a.end_field_y <= c.end_field_y

\* chambers a and b have no field in common
DisjointChambers(a, b) ==
    \/ a.end_field_x < b.start_field_x \/ b.end_field_x < a.start_field_x
    \/ a.end_field_y < b.start_field_y \/ b.end_field_y < a.start_field_y

\* grid arr with every cell of the outer ring a wall again
ClosedRing(arr, n) == [i \in DOMAIN arr |-> OnRing(i, n) \/ arr[i]]

----------------------------------------------------------------------------
(* Claims *)

\* C1  Determinism: when a second, independent run from the same kind, size
\* and seed is over, its grid, effective size, start point, exit point and
\* exit border are those of the first run.
Determinism == (run = 2 /\ pc = "done") => Result = first

\* C2  Border integrity: after generate(), exactly one cell of the outer ring
\* is open; it is no corner, lies on the border get_end_border() names and is
\* 4-adjacent to the point get_exit() returns.
BorderIntegrity ==
    pc = "done" =>
        /\ Cardinality(OpenRing(maze_array, maze_size)) = 1
        /\ \A h \in OpenRing(maze_array, maze_size) :
              /\ ~Corner(h, maze_size)
              /\ OnBorder(h, maze_size, end_border)
              /\ h \in Adjacent(PointIndex(end_position, maze_size), maze_size)

BorderIntegrityWitness ==
    /\ pc = "done"
    /\ generator = "DFS"
    /\ end_border = "Right"
    /\ Cardinality(OpenRing(maze_array, maze_size)) = 1

\* C3  Perfect maze (DFS): at every step of the carver and in the grid it
\* returns, the open cells are connected, the number of adjacent open pairs
\* is the number of open cells minus one, and no 2x2 block is open.
DfsPerfectMaze ==
    (generator = "DFS" /\ pc \in {"dfs", "start", "exit"}) =>
        /\ Connected(DfsGrid, maze_size)
        /\ Cardinality(OpenEdges(DfsGrid, maze_size))
              = Cardinality(OpenCells(DfsGrid, maze_size)) - 1
        /\ ~HasOpenBlock(DfsGrid, maze_size)

\* a returned DFS grid in which two branches came to the same wall cell: it
\* has two open neighbours and stayed a wall
DfsPerfectMazeWitness ==
    /\ generator = "DFS"
    /\ pc = "start"
    /\ \E x \in 1 .. (maze_size - 2), y \in 1 .. (maze_size - 2) :
          /\ maze_array[x * maze_size + y]
          /\ VisitedNeighbours(maze_array, maze_size, x, y) >= 2

\* C4  Full connectivity (RD): after generate() with RD, the flood fill from
\* the start point covers every open cell; the exit point and the pierced
\* border cell are among them.
RdFullConnectivity ==
    (generator = "RD" /\ pc = "done") =>
        LET R == Reach(maze_array, maze_size, PointIndex(start_position, maze_size))
        IN  /\ R = OpenCells(maze_array, maze_size)
            /\ PointIndex(end_position, maze_size) \in R
            /\ OpenRing(maze_array, maze_size) # {}
            /\ OpenRing(maze_array, maze_size) \subseteq R

RdFullConnectivityWitness ==
    /\ generator = "RD"
    /\ pc = "done"
    /\ start_position # end_position
    /\ \E i \in Cells(maze_size) : ~OnRing(i, maze_size) /\ maze_array[i]

\* C5  Reachable exit: after generate(), either algorithm, a path of
\* 4-adjacent open cells leads from the start point to the exit point, and
\* the pierced border cell is open and next to the exit point.
ExitReachable ==
    pc = "done" =>
        LET R     == Reach(maze_array, maze_size, PointIndex(start_position, maze_size))
            exit  == PointIndex(end_position, maze_size)
        IN  /\ exit \in R
            /\ \E h \in Adjacent(exit, maze_size) :
                  OnRing(h, maze_size) /\ h \in R

\* the start is neither the exit point nor next to it
ExitReachableWitness ==
    /\ pc = "done"
    /\ size = MaxSize
    /\ start_position # end_position
    /\ PointIndex(start_position, maze_size)
          \notin Adjacent(PointIndex(end_position, maze_size), maze_size)

\* C6  Start validity: once the start is placed, 1 <= x, y <= size-2 and the
\* cell at y*size + x is open.
StartValidity ==
    pc \in {"exit", "done"} =>
        /\ 1 <= start_position[1] /\ start_position[1] <= maze_size - 2
        /\ 1 <= start_position[2] /\ start_position[2] <= maze_size - 2
        /\ maze_array[start_position[2] * maze_size + start_position[1]] = FALSE

\* a start in the last interior column
StartValidityWitness ==
    /\ pc = "exit"
    /\ start_position[1] = maze_size - 2

\* C7  Odd-size normalization: with RD and an even size N, after generate()
\* get_maze_size() is N+1 and the grid has (N+1)*(N+1) cells.
OddSizeNormalization ==
    (generator = "RD" /\ size % 2 = 0 /\ pc = "done") =>
        /\ maze_size = size + 1
        /\ DOMAIN maze_array = 0 .. ((size + 1) * (size + 1) - 1)

OddSizeNormalizationWitness ==
    /\ generator = "RD"
    /\ size % 2 = 0
    /\ pc = "done"
    /\ maze_size = size + 1

\* C8  Start placement terminates: the grid a generator returns has an open
\* interior cell, and under fair sampling the loop of set_start_position is
\* left.
StartPlacementTerminates ==
    /\ [](pc = "start" =>
            \E i \in OpenCells(maze_array, maze_size) : ~OnRing(i, maze_size))
    /\ (pc = "start") ~> (pc = "exit")

\* the start was placed in one of the sparsest grids
StartPlacementTerminatesWitness ==
    /\ pc = "exit"
    /\ generator = "DFS"
    /\ Cardinality(OpenCells(maze_array, maze_size)) <= 8

\* C9  Exit placement terminates: the grid a generator returns has an open
\* cell one step inward of the ring, and under fair sampling the loop of
\* set_exit is left.
ExitPlacementTerminates ==
    /\ [](pc = "exit" => InwardOpen(maze_array, maze_size) # {})
    /\ (pc = "exit") ~> (pc = "done")

\* the exit was placed in a grid with few cells next to the ring
ExitPlacementTerminatesWitness ==
    /\ pc = "done"
    /\ generator = "DFS"
    /\ Cardinality(InwardOpen(maze_array, maze_size)) <= 4

\* C10  Frame of the placements: start placement changes no cell, a failed
\* exit attempt changes no cell, and the successful one turns exactly one
\* cell, a wall of the outer ring, open.
ExitOnlyMutation ==
    [][/\ pc = "start" => maze_array' = maze_array
       /\ pc = "exit" =>
            \/ pc' = "exit" /\ maze_array' = maze_array
            \/ /\ pc' = "done"
               /\ DOMAIN maze_array' = DOMAIN maze_array
               /\ \E h \in DOMAIN maze_array :
                     /\ OnRing(h, maze_size)
                     /\ maze_array[h] /\ ~maze_array'[h]
                     /\ \A i \in DOMAIN maze_array \ {h} :
                           maze_array'[i] = maze_array[i]]_vars

ExitOnlyMutationWitness ==
    /\ pc = "done"
    /\ generator = "RD"
    /\ end_border = "Bottom"
    /\ Cardinality(OpenRing(maze_array, maze_size)) = 1

\* C11  Exit point: after generate(), the point get_exit() returns lies one
\* step inward of the border get_end_border() names (y = 1 for Top,
\* y = size-2 for Bottom, x = 1 for Left, x = size-2 for Right), its other
\* coordinate is in 1 .. size-2, and the cell at y*size + x is open.
ExitPointInward ==
    pc = "done" =>
        LET x == end_position[1]
            y == end_position[2]
        IN  /\ end_border = "Top"    => (y = 1 /\ x \in 1 .. (maze_size - 2))
            /\ end_border = "Bottom" => (y = maze_size - 2 /\ x \in 1 .. (maze_size - 2))
            /\ end_border = "Left"   => (x = 1 /\ y \in 1 .. (maze_size - 2))
            /\ end_border = "Right"  => (x = maze_size - 2 /\ y \in 1 .. (maze_size - 2))
            /\ maze_array[y * maze_size + x] = FALSE

\* an exit on the left border, in the last interior row
ExitPointInwardWitness ==
    /\ pc = "done"
    /\ end_border = "Left"
    /\ end_position = <<1, maze_size - 2>>

\* C12  Immutability after generation, as claimed: once generate() has
\* completed, the grid, the effective size, the start point, the exit point
\* and the exit border never change again, whatever is called afterwards
\* (the accessors or generate()).
ImmutableAfterGenerate == run = 2 => Result = first

\* C12  Immutability after generation, amended: once generate() has
\* completed, the accessors change nothing of the result; a further
\* generate() keeps the effective size (the grid, the start, the exit and the
\* border are then made anew).
ResultKeptUntilRegenerated ==
    /\ [][(pc = "done" /\ pc' = "done") => Result' = Result]_vars
    /\ [](run = 2 => maze_size = first.maze_size)

\* a further generate() on an RD generator built with an even size has
\* returned with another grid of the same effective size
ResultKeptUntilRegeneratedWitness ==
    /\ run = 2
    /\ pc = "done"
    /\ generator = "RD"
    /\ size % 2 = 0
    /\ maze_size = first.maze_size
    /\ maze_array # first.maze_array

\* C13  generate() aborts on contract violations only: for the sizes of the
\* model and either algorithm, whatever is drawn, no step of generate() reads
\* or writes outside the grid, subtracts below zero or draws from an empty
\* range; generate() never stops half-way, and when it is over the grid has
\* size*size cells and the start and the exit are set.
GenerateNeverAborts ==
    /\ ~Panics
    /\ pc # "done" => ENABLED GenerateMaze
    /\ pc = "done" =>
          /\ DOMAIN maze_array = Cells(maze_size)
          /\ start_position # <<0, 0>>
          /\ end_position # <<0, 0>>

\* divide_chamber is entered for a chamber one field wide: the base case is
\* what keeps it from dividing on, down to a draw from an empty range
GenerateNeverAbortsWitness ==
    /\ pc = "rd"
    /\ size = MaxSize
    /\ stack # <<>>
    /\ LET c == stack[Len(stack)]
       IN  /\ c.orientation = "Horizontal"
           /\ c.end_field_x = c.start_field_x
           /\ c.end_field_y > c.start_field_y

\* C14  Order inside generate(): the generator runs to its end before
\* anything is placed, then the start is placed, then the exit.  While the
\* generator runs no placement acts; the start is placed before the first
\* exit attempt, so that every cell of the outer ring is a wall when the
\* start is chosen; the exit placement leaves the start alone.
GenerateOrder ==
    [][/\ pc \in {"dfs", "rd"} =>
            /\ UNCHANGED <<start_position, end_position, end_border>>
            /\ pc' # pc => (pc' = "start" /\ stack = <<>>)
       /\ pc = "start" =>
            /\ pc' \in {"start", "exit"}
            /\ UNCHANGED <<end_position, end_border, maze_array>>
            /\ OpenRing(maze_array, maze_size) = {}
       /\ pc = "exit" =>
            /\ pc' \in {"exit", "done"}
            /\ UNCHANGED start_position]_vars

\* the start has just been chosen, in a grid whose ring is closed
GenerateOrderWitness ==
    /\ pc = "exit"
    /\ sample = start_position
    /\ end_position = <<0, 0>>
    /\ OpenRing(maze_array, maze_size) = {}

\* C15  generate() changes the size for RD with an even size only: with DFS,
\* or with RD and an odd size, the size generate() works with and
\* get_maze_size() returns is the size passed to new(); with RD it is odd.
SizeChangesOnlyForEvenRD ==
    pc # "new" =>
        /\ (generator = "DFS" \/ size % 2 = 1) => maze_size = size
        /\ generator = "RD" => maze_size % 2 = 1

\* DFS has returned a grid of even size
SizeChangesOnlyForEvenRDWitness ==
    /\ pc = "done"
    /\ generator = "DFS"
    /\ size % 2 = 0
    /\ maze_size = size
    /\ DOMAIN maze_array = Cells(size)

\* C16  Sampling ranges of the placements: every coordinate sampled by the
\* start placement and every index sampled by the exit placement lies in
\* 1 .. size-2.
SamplesInterior ==
    \A k \in DOMAIN sample : sample[k] \in 1 .. (maze_size - 2)

\* C17  DFS carve rule: a step of the carver opens at most one cell; the
\* cell it opens is inside 1 .. size-2 on both axes, was a wall, and has
\* exactly one open 4-neighbour at the moment it is opened; a step that
\* rejects its candidate (no call frame is added) leaves the grid as it was.
DfsCarveRule ==
    [][(pc = "dfs" /\ pc' = "dfs") =>
          LET opened == {i \in Cells(maze_size) : work_array[i] /\ ~work_array'[i]}
          IN  /\ DOMAIN work_array' = DOMAIN work_array
              /\ \A i \in Cells(maze_size) : work_array'[i] => work_array[i]
              /\ Cardinality(opened) <= 1
              /\ \A i \in opened :
                    /\ Row(i, maze_size) \in 1 .. (maze_size - 2)
                    /\ Col(i, maze_size) \in 1 .. (maze_size - 2)
                    /\ Cardinality(Adjacent(i, maze_size)
                                     \cap OpenCells(work_array, maze_size)) = 1
              /\ Len(stack') <= Len(stack) => opened = {}
              /\ Len(stack') > Len(stack) => opened # {}]_vars

\* the innermost call is about to try an interior wall cell that has two
\* open cells around it
DfsCarveRuleWitness ==
    /\ pc = "dfs"
    /\ stack # <<>>
    /\ LET f == stack[Len(stack)]
       IN  \E d \in f.dirs :
              LET c == Neighbour(f.x, f.y, d)
              IN  /\ c.x \in 1 .. (maze_size - 2)
                  /\ c.y \in 1 .. (maze_size - 2)
                  /\ work_array[c.x * maze_size + c.y]
                  /\ VisitedNeighbours(work_array, maze_size, c.x, c.y) >= 2

\* C18  Closed ring before the exit is placed: while a generator works, in
\* the grid it returns and during the start and exit sampling up to the
\* successful attempt, every cell of the outer ring is a wall.
RingClosedBeforeExit ==
    /\ pc \in {"dfs", "rd"} => OpenRing(work_array, maze_size) = {}
    /\ pc \in {"start", "exit"} => OpenRing(maze_array, maze_size) = {}

\* RD has returned a grid in which a vertical wall has its passage in the
\* last interior row, next to the ring
RingClosedBeforeExitWitness ==
    /\ pc = "start"
    /\ generator = "RD"
    /\ \E i \in Cells(maze_size) :
          /\ Row(i, maze_size) = maze_size - 2
          /\ Col(i, maze_size) % 2 = 0
          /\ ~maze_array[i]

\* C19  DFS seed margin: on both axes the seed point of the carver is at
\* least 3 away from index 0 and at least 3 away from index size-1.  (The
\* outermost frame of the stack holds the seed point.)
SeedMarginKept ==
    (pc = "dfs" /\ stack # <<>>) =>
        /\ stack[1].x - 0 >= 3
        /\ stack[1].y - 0 >= 3
        /\ (maze_size - 1) - stack[1].x >= 3
        /\ (maze_size - 1) - stack[1].y >= 3

\* C20  DFS carving terminates: a step that enters a cell turns exactly one
\* wall cell open and no step turns an open cell back into a wall; the
\* pending calls are never more than the open cells, which are never more
\* than the interior cells; and the stack of pending calls empties in the
\* end, the carver returning its grid.
DfsTerminates ==
    /\ [][(pc = "dfs" /\ pc' = "dfs") =>
             /\ OpenCells(work_array, maze_size) \subseteq OpenCells(work_array', maze_size)
             /\ Len(stack') > Len(stack) =>
                   Cardinality(OpenCells(work_array', maze_size))
                      = Cardinality(OpenCells(work_array, maze_size)) + 1]_vars
    /\ [](pc = "dfs" =>
             /\ Len(stack) <= Cardinality(OpenCells(work_array, maze_size))
             /\ Cardinality(OpenCells(work_array, maze_size))
                   <= (maze_size - 2) * (maze_size - 2))
    /\ (pc = "dfs") ~> (pc = "start")

\* the last call has returned after a long carving
DfsTerminatesWitness ==
    /\ pc = "dfs"
    /\ size = MaxSize
    /\ stack = <<>>
    /\ Cardinality(OpenCells(work_array, maze_size)) >= 14

\* C21  RD orientation rule: every chamber handed to divide_chamber, and
\* every chamber that was divided, is Vertical when it is wider than high,
\* Horizontal when it is higher than wide (so the orientation is free only
\* when width equals height), and its orientation always has a row or column
\* inside the chamber to put the wall on.
RdOrientationRule ==
    /\ pc = "rd" => \A k \in DOMAIN stack : OrientationFits(stack[k])
    /\ \A w \in walls : OrientationFits(w.chamber)

\* two square chambers were divided, one each way: the whole grid by a
\* vertical wall, a chamber two fields by two fields by a horizontal wall
RdOrientationRuleWitness ==
    /\ pc = "rd"
    /\ \E w1, w2 \in walls :
          /\ w1.chamber.end_field_x - w1.chamber.start_field_x = 1
          /\ w1.chamber.end_field_y - w1.chamber.start_field_y = 1
          /\ w1.chamber.orientation = "Horizontal"
          /\ w2.chamber.end_field_x - w2.chamber.start_field_x = 2
          /\ w2.chamber.end_field_y - w2.chamber.start_field_y = 2
          /\ w2.chamber.orientation = "Vertical"

\* C22  RD single-passage walls: while RD divides and in the grid
\* generate() ends with, every wall drawn by a division lies strictly inside
\* the chamber it divided, runs across the whole chamber and has exactly one
\* open cell there: no later division closes the passage or opens a second
\* one.  Until the exit is pierced the wall also ends on walls on both sides
\* (the exit hole may be the ring cell a wall ends on, when the passage of
\* that wall is next to the ring).
RdSinglePassage ==
    (generator = "RD" /\ pc \in {"rd", "start", "exit", "done"}) =>
        \A w \in walls :
            LET c == w.chamber
                lo == IF c.orientation = "Horizontal" THEN c.start_field_y ELSE c.start_field_x
                hi == IF c.orientation = "Horizontal" THEN c.end_field_y ELSE c.end_field_x
            IN  /\ w.wall_index \in (lo * 2 + 2) .. (hi * 2)
                /\ Cardinality(WallCells(w, maze_size)
                                 \cap OpenCells(RdGrid, maze_size)) = 1
                /\ pc # "done" => \A i \in WallEnds(w, maze_size) : RdGrid[i]

\* the exit is placed in a grid with three walls, a vertical one of which
\* ends on a horizontal wall drawn before it
RdSinglePassageWitness ==
    /\ generator = "RD"
    /\ pc = "done"
    /\ Cardinality(walls) >= 3
    /\ \E w1, w2 \in walls :
          /\ w1.chamber.orientation = "Horizontal"
          /\ w2.chamber.orientation = "Vertical"
          /\ w2.chamber.end_field_y * 2 + 2 = w1.wall_index
          /\ w1.chamber.start_field_x * 2 < w2.wall_index
          /\ w2.wall_index < w1.chamber.end_field_x * 2 + 2

\* C23  RD division terminates: a call of divide_chamber divides its chamber
\* only when both spans are at least 1, and otherwise writes nothing; the two
\* chambers it goes on with are not empty, lie inside the chamber, have no
\* field in common and are each smaller than it; and the pending calls run
\* out in the end, the divider returning its grid.
RdTerminates ==
    /\ [][(pc = "rd" /\ pc' = "rd") =>
             LET c == stack[Len(stack)]
             IN  IF Len(stack') > Len(stack)
                 THEN LET a == stack'[Len(stack')]
                          b == stack'[Len(stack') - 1]
                      IN  /\ c.end_field_x - c.start_field_x >= 1
                          /\ c.end_field_y - c.start_field_y >= 1
                          /\ SubChamber(a, c) /\ SubChamber(b, c)
                          /\ DisjointChambers(a, b)
                          /\ Fields(a) < Fields(c) /\ Fields(b) < Fields(c)
                          /\ Fields(a) + Fields(b) = Fields(c)
                 ELSE /\ work_array' = work_array
                      /\ \/ c.end_field_x - c.start_field_x < 1
                         \/ c.end_field_y - c.start_field_y < 1]_vars
    /\ (pc = "rd") ~> (pc = "start")

\* the last call has returned after three divisions
RdTerminatesWitness ==
    /\ pc = "rd"
    /\ stack = <<>>
    /\ Cardinality(walls) = 3

\* C24  Exit placement is independent of the start: no attempt of set_exit
\* changes the recorded start, and whatever the start is, the attempts that
\* can succeed are those, all of them, whose inner cell is open; the cell of
\* the start is among them when it lies next to the ring.
ExitIgnoresStart ==
    pc = "exit" =>
        /\ ~ENABLED (SetExit /\ start_position' # start_position)
        /\ \A exit_index \in 1 .. (maze_size - 1), exit_wall \in DirSet :
              (maze_array[ExitInner(maze_size, exit_index, exit_wall)] = FALSE)
                 <=> ENABLED (/\ SetExit
                              /\ pc' = "done"
                              /\ end_position' = ExitPoint(maze_size, exit_index, exit_wall)
                              /\ end_border' = exit_wall)

\* the cell of the start became the exit point
ExitIgnoresStartWitness ==
    /\ pc = "done"
    /\ end_position = start_position

\* C25  The application never generates with an invalid size: whatever the
\* config file and the command line give, a size below 10 or above 100000 is
\* replaced by 20 and any other size is kept, nothing changes the size
\* afterwards, and the size MazeGenerator::new is called with is in
\* 10 .. 100000.
AppSizeValid ==
    /\ [][(pc = "args" /\ pc' = "restricted") =>
             program_config'.maze_size =
                IF program_config.maze_size < 10 \/ program_config.maze_size > 100000
                THEN 20
                ELSE program_config.maze_size]_vars
    /\ [][pc = "restricted" => program_config' = program_config]_vars
    /\ [](pc = "new" =>
             /\ size = program_config.maze_size
             /\ size \in 10 .. 100000)

\* new() is called with DFS and the largest size accepted
AppSizeValidWitness ==
    /\ pc = "new"
    /\ size = 100000
    /\ generator = "DFS"

\* C26  Seed-determined part of the result: in a second, independent run
\* from the same kind, size and seed, the grid the generator returns (the
\* grid before the exit hole is pierced), the effective size and the start
\* point are those of the first run.
SeedDeterminedPart ==
    (run = 2 /\ pc \in {"exit", "done"}) =>
        /\ maze_size = first.maze_size
        /\ start_position = first.start_position
        /\ ClosedRing(maze_array, maze_size) = ClosedRing(first.maze_array, maze_size)
        /\ pc = "exit" => maze_array = ClosedRing(first.maze_array, maze_size)

\* the second run has ended with the same grid and start but another exit
SeedDeterminedPartWitness ==
    /\ run = 2
    /\ pc = "done"
    /\ generator = "DFS"
    /\ start_position = first.start_position
    /\ end_position # first.end_position

\* C27  State before generation: between new() and the first generate()
\* the accessors return an empty grid, start (0,0), exit (0,0), border Top,
\* and get_maze_size() returns the size passed to new(), also for RD with an
\* even size.
PlaceholdersBeforeGenerate ==
    (pc = "new" /\ run = 1) =>
        Result = [maze_array |-> EmptyArray, maze_size |-> size,
                  start_position |-> <<0, 0>>, end_position |-> <<0, 0>>,
                  end_border |-> "Top"]

\* an RD generator with an even size, not yet run
PlaceholdersBeforeGenerateWitness ==
    /\ pc = "new"
    /\ run = 1
    /\ generator = "RD"
    /\ size % 2 = 0
    /\ maze_size = size
    /\ maze_array = EmptyArray

\* C28  DFS maximality: when the carver has finished (the one call made by
\* generate has returned), every interior wall cell that is 4-adjacent to an
\* open cell other than the seed cell has at least two open 4-neighbours, so
\* that no call of add_path could carve it any more.
DfsMaximal ==
    (pc = "dfs" /\ Len(stack) = 1 /\ stack[1].dirs = {}) =>
        LET seed_cell == stack[1].x * maze_size + stack[1].y
            open      == OpenCells(work_array, maze_size)
        IN  \A i \in Cells(maze_size) \ open :
               (/\ ~OnRing(i, maze_size)
                /\ (Adjacent(i, maze_size) \cap open) \ {seed_cell} # {})
                  => Cardinality(Adjacent(i, maze_size) \cap open) >= 2

\* the carver has finished and a wall cell beside the seed cell has the seed
\* cell as its only open neighbour
DfsMaximalWitness ==
    /\ pc = "dfs"
    /\ Len(stack) = 1
    /\ stack[1].dirs = {}
    /\ LET seed_cell == stack[1].x * maze_size + stack[1].y
           open      == OpenCells(work_array, maze_size)
       IN  \E i \in Adjacent(seed_cell, maze_size) \ open :
              Adjacent(i, maze_size) \cap open = {seed_cell}

\* C29  RD parity structure: while RD divides and in the grid it returns,
\* every cell with odd row and odd column is open, every wall drawn by a
\* division is on an even row or an even column (a step turns cells into
\* walls on one such line only and opens no wall), and every passage, the
\* open cell of a wall, has exactly one even coordinate; in the grid RD
\* returns every cell with even row and even column is a wall.
RdParity ==
    /\ []((generator = "RD" /\ pc \in {"rd", "start", "exit", "done"}) =>
             /\ \A i \in Cells(maze_size) :
                   (Row(i, maze_size) % 2 = 1 /\ Col(i, maze_size) % 2 = 1) => ~RdGrid[i]
             /\ \A w \in walls :
                   /\ w.wall_index % 2 = 0
                   /\ \A i \in WallCells(w, maze_size) \cap OpenCells(RdGrid, maze_size) :
                         (Row(i, maze_size) % 2) + (Col(i, maze_size) % 2) = 1
             /\ pc \in {"start", "exit"} =>
                   \A i \in Cells(maze_size) :
                      (Row(i, maze_size) % 2 = 0 /\ Col(i, maze_size) % 2 = 0) => RdGrid[i])
    /\ [][(pc = "rd" /\ pc' = "rd") =>
             LET drawn == {i \in Cells(maze_size) : ~work_array[i] /\ work_array'[i]}
             IN  /\ \A i \in Cells(maze_size) : work_array[i] => work_array'[i]
                 /\ \/ \E r \in 0 .. (maze_size - 1) :
                          r % 2 = 0 /\ \A i \in drawn : Row(i, maze_size) = r
                    \/ \E r \in 0 .. (maze_size - 1) :
                          r % 2 = 0 /\ \A i \in drawn : Col(i, maze_size) = r]_vars

\* RD has returned a grid with three walls and a corridor: an open cell with
\* an even coordinate that is the passage of no wall
RdParityWitness ==
    /\ generator = "RD"
    /\ pc = "start"
    /\ Cardinality(walls) >= 3
    /\ \E i \in OpenCells(maze_array, maze_size) :
          /\ (Row(i, maze_size) % 2) + (Col(i, maze_size) % 2) = 1
          /\ \A w \in walls : i \notin WallCells(w, maze_size)

\* C30  RD mazes are perfect: in the grid the RD divider returns the open
\* cells are connected under 4-adjacency, the number of adjacent open pairs
\* is the number of open cells minus one (no cycle), and no 2x2 block is
\* open: the chambers the base case leaves undivided are corridors one cell
\* wide.
RdPerfectMaze ==
    (generator = "RD" /\ pc \in {"start", "exit"}) =>
        /\ Connected(maze_array, maze_size)
        /\ Cardinality(OpenEdges(maze_array, maze_size))
              = Cardinality(OpenCells(maze_array, maze_size)) - 1
        /\ ~HasOpenBlock(maze_array, maze_size)

\* RD has returned a grid whose first row of fields was left undivided: a
\* corridor from one side to the other
RdPerfectMazeWitness ==
    /\ generator = "RD"
    /\ pc = "start"
    /\ \A m \in 1 .. (maze_size - 2) : ~maze_array[1 * maze_size + m]
    /\ \E w \in walls : w.chamber.orientation = "Horizontal" /\ w.wall_index = 2

====
